---- MODULE Spec2Model ----
(***************************************************************************)
(* Model of the duplex-session lifecycle of the ConversationView component *)
(* (src/components/ConversationView.tsx): the React state and refs, the    *)
(* effect that (re)runs startSession, cleanup, the callbacks of the live   *)
(* session, the capture callback and the inbound message handler.          *)
(***************************************************************************)
EXTENDS Integers, Sequences, FiniteSets, TLC

\* ------------------------------------------------------------- bounds
MaxAttempts == 2      \* startSession invocations that pass the isConnecting guard
MaxSessions == 1      \* attempts of a run of SpecTeardown
MaxFrames == 2        \* frames handled by the capture callbacks
MaxMessages == 1      \* inbound messages handled by onmessage
MaxTime == 2          \* readings of the output clock are in 0..MaxTime
MaxNow == 3           \* readings of Date.now() are in 0..MaxNow
MaxHeard == 3         \* blocks handled in a run of SpecVad
MaxDuplexFrames == 3  \* blocks handled in a run of SpecDuplex
MaxDuplexMessages == 2 \* messages handled in a run of SpecDuplex
MaxChunks == 3        \* messages handled in a run of SpecPlayback
MaxTurnMessages == 3  \* messages handled in a run of SpecTranscript
MaxChallengeMessages == 2  \* messages handled in a run of SpecChallenge
MaxGainFrames == 2    \* frames handled in a run of SpecGain
MaxConversations == 2 \* conversations opened in a run of SpecHistory
MaxHistoryMessages == 2 \* messages handled in a run of SpecHistory
Precision == 3        \* significant bits of a stored sample
InputSampleRate == 16000

\* ------------------------------------------------------------- values
NoError == "null"
Friendly == "friendly"             \* a result of getFriendlyErrorMessage
NotEstablished == "notEstablished" \* the literal message of onclose

Durations == {1, 2}                \* buffer.duration of a decoded chunk
Blocks == {<<0, 0>>, <<3, -3>>}     \* captured blocks: silence and speech
GainBlocks == Blocks \cup {<<7, 7>>} \* captured blocks of the gain stage
Gains == {1, 2, 3}                 \* positions of the Mic gain slider (1: 1.0x)
Chars == {"a", " "}                \* characters of a transcription delta
Thresholds == {2, 4}               \* positions of the VAD threshold slider
Hangovers == {1, 2}                \* positions of the VAD duration slider

\* LANGUAGES with their default voice, SCENARIOS and VOICE_DETAILS (constants.ts).
Languages == {"en", "es"}
Scenarios == {"casual", "ordering"}
Voices == {"Puck", "Kore", "Charon"}
VoiceOf(lang) == IF lang = "en" THEN "Puck" ELSE "Kore"

\* speechRateRef and outputPitchRef: their initial values (lines 60-63).
speechRateRef == 1
outputPitchRef == 1

\* An inbound LiveServerMessage: audio is the duration of the inline audio chunk
\* (0: none); input and output are transcription deltas (<<>>: none).
Msg(a, i, inp, out, tc) ==
  [audio |-> a, interrupted |-> i, input |-> inp, output |-> out, turnComplete |-> tc]

InboundMessages ==
  {Msg(d, FALSE, <<>>, <<>>, FALSE) : d \in Durations}
  \cup {Msg(0, TRUE, <<>>, <<>>, FALSE), Msg(0, FALSE, <<>>, <<>>, TRUE)}
  \cup {Msg(0, FALSE, <<c>>, <<>>, FALSE) : c \in Chars}
  \cup {Msg(0, FALSE, <<>>, <<"a">>, FALSE), Msg(1, FALSE, <<>>, <<"a">>, FALSE)}

VARIABLES
  mounted,             \* the component is mounted (its effects run, its setters act)
  effectRan,           \* the effect of line 415 has run for the first render
  state,               \* the useState values the session core reads or writes
  deps,                \* isConnecting/isActive/error captured by the committed startSession
  entries,             \* the TranscriptionEntry list (useState, line 34)
  sessionRef, audioContextInRef, audioContextOutRef, outputGainNodeRef,
  nextStartTimeRef, sourcesRef, transcriptionRef,
  wasUserTalkingRef, lastSilenceTimeRef, vadThresholdRef, vadDurationRef,
  inputGainRef,        \* the Mic gain the capture callback reads (line 61)
  attempts,            \* one record per startSession invocation that passed the guard
  inOpen, outOpen,     \* AudioContexts created and not closed, named by creating attempt
  currentTime,         \* last reading of currentTime of the newest output AudioContext
  now,                 \* last reading of Date.now()
  decoding,            \* onmessage invocations suspended at await decodeAudioData
  frames, messages,    \* counters bounding the run
  op,                  \* the handler that ran last
  tornDown,            \* attempts that were in progress or live when cleanup ran
  heard,               \* the blocks the VAD step handled, in order
  log,                 \* what the message handlers did, in order
  stream,              \* the inbound messages, in arrival order
  activeChallenge,     \* the status of the Challenge (useState, line 56), or "null"
  calls,               \* pending calls of generateContent (collaborators)
  app,                 \* the AppState of App.tsx (line 9)
  storage,             \* localStorage: the history saved under each storageKey
  picked               \* the voice the user picked last by hand, "null" if none since
                       \* the language was chosen

vars == <<mounted, effectRan, state, deps, entries, sessionRef, audioContextInRef,
          audioContextOutRef, outputGainNodeRef, nextStartTimeRef, sourcesRef,
          transcriptionRef, wasUserTalkingRef, lastSilenceTimeRef, vadThresholdRef,
          vadDurationRef, attempts, inOpen, outOpen, currentTime, now, decoding,
          frames, inputGainRef, messages, op, tornDown, heard, log, stream,
          activeChallenge, calls, app, storage, picked>>

\* ------------------------------------------------------------- helpers
Max(a, b) == IF a >= b THEN a ELSE b

\* The part of the program state that cleanup and startSession read and write.
World ==
  [mounted |-> mounted, state |-> state, sessionRef |-> sessionRef,
   audioContextInRef |-> audioContextInRef, audioContextOutRef |-> audioContextOutRef,
   outputGainNodeRef |-> outputGainNodeRef, sourcesRef |-> sourcesRef,
   attempts |-> attempts, inOpen |-> inOpen, outOpen |-> outOpen]

Commit(w) ==
  /\ state' = w.state
  /\ sessionRef' = w.sessionRef
  /\ audioContextInRef' = w.audioContextInRef
  /\ audioContextOutRef' = w.audioContextOutRef
  /\ outputGainNodeRef' = w.outputGainNodeRef
  /\ sourcesRef' = w.sourcesRef
  /\ attempts' = w.attempts
  /\ inOpen' = w.inOpen
  /\ outOpen' = w.outOpen

\* A useState setter: React drops updates of a component that is not mounted.
SetState(w, upd) ==
  IF w.mounted
    THEN [w EXCEPT !.state = [f \in DOMAIN w.state |->
                                IF f \in DOMAIN upd THEN upd[f] ELSE w.state[f]]]
    ELSE w

\* The values of the dependency list of startSession that can change while mounted.
DepsOf(s) == [isConnecting |-> s.isConnecting, isActive |-> s.isActive, error |-> s.error]

\* What the functions of a render close over: the dependencies and activeChallenge.
ClosureOf(s, challenge) ==
  [isConnecting |-> s.isConnecting, isActive |-> s.isActive, error |-> s.error,
   activeChallenge |-> challenge]

\* session.close() on the socket of a session object.
CloseCall(sock) == IF sock \in {"connecting", "open"} THEN "closing" ELSE sock

\* cleanup without sourcesRef.current.clear() (line 252).
cleanupKeepsSources(w) ==
  LET w1 == [w EXCEPT
               !.attempts = IF w.sessionRef # 0
                              THEN [@ EXCEPT ![w.sessionRef].sock = CloseCall(@)]
                              ELSE @,
               !.sessionRef = 0,
               !.inOpen = @ \ {w.audioContextInRef},
               !.audioContextInRef = 0,
               !.outOpen = @ \ {w.audioContextOutRef},
               !.audioContextOutRef = 0,
               !.outputGainNodeRef = 0]
  IN SetState(w1, [isActive |-> FALSE, isUserTalkingLocal |-> FALSE, isSpeaking |-> FALSE])

\* cleanup (lines 235-256).
cleanup(w) ==
  LET w1 == [w EXCEPT
               !.attempts = IF w.sessionRef # 0
                              THEN [@ EXCEPT ![w.sessionRef].sock = CloseCall(@)]
                              ELSE @,
               !.sessionRef = 0,
               !.inOpen = @ \ {w.audioContextInRef},
               !.audioContextInRef = 0,
               !.outOpen = @ \ {w.audioContextOutRef},
               !.audioContextOutRef = 0,
               !.outputGainNodeRef = 0,
               !.sourcesRef = {}]
  IN SetState(w1, [isActive |-> FALSE, isUserTalkingLocal |-> FALSE, isSpeaking |-> FALSE])

NewAttempt(d) ==
  [pc |-> "getUserMedia", cIsActive |-> d.isActive, cError |-> d.error,
   cChallenge |-> d.activeChallenge, sock |-> "none", opened |-> FALSE, procCtx |-> 0,
   queued |-> 0, sent |-> 0,
   sentAfterTeardown |-> FALSE]

\* startSession up to its first await (lines 258-266), called with the closure d.
startSession(w, d) ==
  IF d.isConnecting
    THEN w
    ELSE LET w1 == cleanup(w)
             w2 == SetState(w1, [error |-> NoError])
             w3 == SetState(w2, [isConnecting |-> TRUE])
         IN [w3 EXCEPT !.attempts = Append(@, NewAttempt(d))]

\* The catch block of startSession (lines 402-405).
catch(w) == SetState(SetState(w, [error |-> Friendly]), [isConnecting |-> FALSE])

\* Attempts in progress or live: what a teardown at this point tears down.
Live(att) ==
  {k \in DOMAIN att : att[k].pc \in {"getUserMedia", "connect"}
                      \/ att[k].sock \in {"connecting", "open"}}

\* The handler that ran last: k is the attempt (or message) it belongs to and, for a
\* teardown, the number of PlaybackSources it stopped.
Op(name, k) == [name |-> name, k |-> k]

\* What the lifecycle handlers leave alone.
Unused == UNCHANGED <<entries, nextStartTimeRef, transcriptionRef, wasUserTalkingRef,
                      lastSilenceTimeRef, vadThresholdRef, vadDurationRef, now,
                      decoding, frames, inputGainRef, messages, heard, log, stream,
                      activeChallenge, calls, picked>>

\* String.prototype.trim on a sequence of characters.
RECURSIVE trimStart(_)
trimStart(t) == IF t # <<>> /\ Head(t) = " " THEN trimStart(Tail(t)) ELSE t

RECURSIVE trimEnd(_)
trimEnd(t) ==
  IF t # <<>> /\ t[Len(t)] = " " THEN trimEnd(SubSeq(t, 1, Len(t) - 1)) ELSE t

trim(t) == trimEnd(trimStart(t))

\* ------------------------------------------------------------- history store
\* The storageKey of line 32 ignoring the scenario.
storageKeyOfLanguage(language, scenario) == "polyglot_history_" \o language

\* storageKey (line 32).
storageKey(language, scenario) == "polyglot_history_" \o language \o "_" \o scenario

\* What localStorage.getItem returns for a key never set, and for a saved string.
NoItem == [saved |-> FALSE]
Item(json) == [saved |-> TRUE, json |-> json]

StorageKeys == {storageKey(l, s) : l \in Languages, s \in Scenarios}

\* JSON.stringify of the entries (line 90): a property that is undefined is left out.
stringify(list) ==
  [i \in DOMAIN list |->
     IF list[i].correction = <<>>
       THEN [role |-> list[i].role, text |-> list[i].text,
             timestamp |-> list[i].timestamp]
       ELSE list[i]]

\* The initializer of entries (lines 34-37): JSON.parse of the saved value, or [].
parse(item) ==
  IF ~item.saved THEN <<>>
  ELSE [i \in DOMAIN item.json |->
          [role |-> item.json[i].role, text |-> item.json[i].text,
           timestamp |-> item.json[i].timestamp,
           correction |-> IF "correction" \in DOMAIN item.json[i]
                            THEN item.json[i].correction
                            ELSE <<>>]]

\* The effect of lines 89-91 after a render of the mounted component: it runs when
\* the entries changed (was: the entries of the previous render).
setItem(store, a, was, list) ==
  IF was # list
    THEN [store EXCEPT ![storageKey(a.language, a.scenario)] = Item(stringify(list))]
    ELSE store

\* ------------------------------------------------------------- initial state
Init ==
  /\ mounted = TRUE
  /\ effectRan = FALSE
  /\ state = [isActive |-> FALSE, isConnecting |-> FALSE, error |-> NoError,
              isSpeaking |-> FALSE, isUserTalkingLocal |-> FALSE]
  /\ deps = DepsOf(state)
  /\ entries = <<>>
  /\ sessionRef = 0
  /\ audioContextInRef = 0
  /\ audioContextOutRef = 0
  /\ outputGainNodeRef = 0
  /\ nextStartTimeRef = 0
  /\ sourcesRef = {}
  /\ transcriptionRef = [input |-> <<>>, output |-> <<>>]
  /\ wasUserTalkingRef = FALSE
  /\ lastSilenceTimeRef = 0
  /\ vadThresholdRef = 2
  /\ vadDurationRef = 2
  /\ inputGainRef = 1
  /\ attempts = <<>>
  /\ inOpen = {}
  /\ outOpen = {}
  /\ currentTime = 0
  /\ now = 0
  /\ decoding = {}
  /\ frames = 0
  /\ messages = 0
  /\ op = Op("init", 0)
  /\ tornDown = {}
  /\ heard = <<>>
  /\ log = <<>>
  /\ stream = <<>>
  /\ activeChallenge = "null"
  /\ calls = {}
  /\ app = [language |-> "en", scenario |-> "casual", selectedVoice |-> VoiceOf("en"),
            status |-> "active"]
  /\ storage = [k \in StorageKeys |-> NoItem]
  /\ picked = "null"

\* ------------------------------------------------------------- React
\* The effect of lines 415-418 on mount: startSession().
Mount ==
  /\ mounted /\ ~effectRan
  /\ effectRan' = TRUE
  /\ deps' = DepsOf(state)
  /\ Commit(startSession(World, ClosureOf(state, activeChallenge)))
  /\ storage' = [storage EXCEPT ![storageKey(app.language, app.scenario)] =
                                   Item(stringify(entries))]
  /\ op' = Op("mount", Len(attempts) + 1)
  /\ UNCHANGED <<mounted, currentTime, tornDown, app>>
  /\ Unused

\* A render that commits changed isConnecting/isActive/error: startSession is a new
\* function (line 406), so the effect re-runs: the previous cleanup, then startSession().
Rerender ==
  /\ mounted /\ effectRan
  /\ DepsOf(state) # deps
  /\ DepsOf(state).isConnecting \/ Len(attempts) < MaxAttempts
  /\ deps' = DepsOf(state)
  /\ Commit(startSession(cleanup(World), ClosureOf(state, activeChallenge)))
  /\ tornDown' = tornDown \cup Live(attempts)
  /\ op' = Op(IF DepsOf(state).isConnecting THEN "rerender" ELSE "restart",
              Cardinality(sourcesRef))
  /\ UNCHANGED <<mounted, effectRan, currentTime>>
  /\ Unused /\ UNCHANGED <<app, storage>>

\* handleEnd (App.tsx lines 60-66).
handleEnd(a) == [a EXCEPT !.status = "idle", !.scenario = "null"]

\* The component is unmounted (the End button, line 535, calls onEnd): React runs
\* the effect's cleanup.
Unmount ==
  /\ mounted /\ effectRan
  /\ mounted' = FALSE
  /\ app' = handleEnd(app)
  /\ Commit(cleanup(World))
  /\ tornDown' = tornDown \cup Live(attempts)
  /\ op' = Op("unmount", Cardinality(sourcesRef))
  /\ UNCHANGED <<effectRan, deps, currentTime, storage>>
  /\ Unused

\* ------------------------------------------------------------- startSession, continued
\* getUserMedia resolves: lines 268-400, up to the await of line 401.
GetUserMediaResolved(k) ==
  /\ attempts[k].pc = "getUserMedia"
  /\ attempts' = [attempts EXCEPT ![k].pc = "connect", ![k].sock = "connecting"]
  /\ audioContextInRef' = k
  /\ audioContextOutRef' = k
  /\ outputGainNodeRef' = k
  /\ inOpen' = inOpen \cup {k}
  /\ outOpen' = outOpen \cup {k}
  /\ currentTime' = 0
  /\ op' = Op("getUserMedia", k)
  /\ UNCHANGED <<mounted, effectRan, deps, state, sessionRef, sourcesRef, tornDown>>
  /\ Unused /\ UNCHANGED <<app, storage>>

\* new GoogleGenAI or getUserMedia throws (no device, permission denied): catch.
GetUserMediaRejected(k) ==
  /\ attempts[k].pc = "getUserMedia"
  /\ Commit(catch([World EXCEPT !.attempts[k].pc = "failed"]))
  /\ op' = Op("catch", k)
  /\ UNCHANGED <<mounted, effectRan, deps, currentTime, tornDown>>
  /\ Unused /\ UNCHANGED <<app, storage>>

\* ai.live.connect rejects before the session opened: catch.
ConnectRejected(k) ==
  /\ attempts[k].pc = "connect" /\ attempts[k].sock = "connecting"
  /\ Commit(catch([World EXCEPT !.attempts[k].pc = "failed",
                                !.attempts[k].sock = "closed"]))
  /\ op' = Op("catch", k)
  /\ UNCHANGED <<mounted, effectRan, deps, currentTime, tornDown>>
  /\ Unused /\ UNCHANGED <<app, storage>>

\* sessionRef.current = await sessionPromise (line 401): resolved after onopen.
ConnectResolved(k) ==
  /\ attempts[k].pc = "connect" /\ attempts[k].opened
  /\ sessionRef' = k
  /\ attempts' = [attempts EXCEPT
                    ![k].pc = "done",
                    ![k].queued = 0,
                    ![k].sent = IF attempts[k].sock = "open" THEN @ + attempts[k].queued ELSE @,
                    ![k].sentAfterTeardown =
                       @ \/ (attempts[k].sock = "open" /\ attempts[k].queued > 0
                             /\ k \in tornDown)]
  /\ op' = Op("resolved", k)
  /\ UNCHANGED <<mounted, effectRan, deps, state, audioContextInRef, audioContextOutRef,
                 outputGainNodeRef, sourcesRef, inOpen, outOpen, currentTime, tornDown>>
  /\ Unused /\ UNCHANGED <<app, storage>>

\* ------------------------------------------------------------- session callbacks
\* onopen (lines 288-333). With audioContextInRef.current null line 291 throws and
\* no capture callback is attached.
onopen(k) ==
  /\ attempts[k].pc = "connect" /\ attempts[k].sock = "connecting"
  /\ Commit(SetState(SetState([World EXCEPT !.attempts[k].sock = "open",
                                            !.attempts[k].opened = TRUE,
                                            !.attempts[k].procCtx = audioContextInRef],
                              [isActive |-> TRUE]),
                     [isConnecting |-> FALSE]))
  /\ op' = Op("onopen", k)
  /\ UNCHANGED <<mounted, effectRan, deps, currentTime, tornDown>>
  /\ Unused /\ UNCHANGED <<app, storage>>

\* onerror (lines 387-391): a transport-level failure of the socket.
onerror(k) ==
  /\ attempts[k].sock \in {"connecting", "open"}
  /\ Commit(SetState(SetState(SetState([World EXCEPT !.attempts[k].sock = "failed"],
                                       [error |-> Friendly]),
                              [isConnecting |-> FALSE]),
                     [isActive |-> FALSE]))
  /\ op' = Op("onerror", k)
  /\ UNCHANGED <<mounted, effectRan, deps, currentTime, tornDown>>
  /\ Unused /\ UNCHANGED <<app, storage>>

\* onclose (lines 392-398); isActive and error are those of the closure.
onclose(k) ==
  /\ attempts[k].sock \in {"connecting", "open", "closing", "failed"}
  /\ LET w0 == [World EXCEPT !.attempts[k].sock = "closed"]
         w1 == IF ~attempts[k].cIsActive /\ attempts[k].cError = NoError
                 THEN SetState(w0, [error |-> NotEstablished])
                 ELSE w0
     IN Commit(SetState(SetState(w1, [isActive |-> FALSE]), [isConnecting |-> FALSE]))
  /\ op' = Op("onclose", k)
  /\ UNCHANGED <<mounted, effectRan, deps, currentTime, tornDown>>
  /\ Unused /\ UNCHANGED <<app, storage>>

\* ------------------------------------------------------------- capture
\* The VAD step of onaudioprocess (lines 307-323) on the refs v, for a block of
\* energy rms stamped t. Returns the refs and the transition ("start", "stop", "none").
\* The VAD step announcing a start at every block above the threshold.
vadStepRestarts(v, rms, t) ==
  IF rms > v.threshold
    THEN [was |-> TRUE, last |-> t, event |-> "start"]
    ELSE IF v.was /\ t - v.last > v.duration
           THEN [was |-> FALSE, last |-> v.last, event |-> "stop"]
           ELSE [was |-> v.was, last |-> v.last, event |-> "none"]

\* The VAD step stamping lastSilenceTimeRef only when speech starts.
vadStepKeepsFirst(v, rms, t) ==
  IF rms > v.threshold
    THEN [was |-> TRUE, last |-> IF ~v.was THEN t ELSE v.last,
          event |-> IF ~v.was THEN "start" ELSE "none"]
    ELSE IF v.was /\ t - v.last > v.duration
           THEN [was |-> FALSE, last |-> v.last, event |-> "stop"]
           ELSE [was |-> v.was, last |-> v.last, event |-> "none"]

\* The VAD step declaring the end of speech as soon as the hangover is reached.
vadStepAtHangover(v, rms, t) ==
  IF rms > v.threshold
    THEN [was |-> TRUE, last |-> t,
          event |-> IF ~v.was THEN "start" ELSE "none"]
    ELSE IF v.was /\ t - v.last >= v.duration
           THEN [was |-> FALSE, last |-> v.last, event |-> "stop"]
           ELSE [was |-> v.was, last |-> v.last, event |-> "none"]

vadStep(v, rms, t) ==
  IF rms > v.threshold
    THEN [was |-> TRUE, last |-> t,
          event |-> IF ~v.was THEN "start" ELSE "none"]
    ELSE IF v.was /\ t - v.last > v.duration
           THEN [was |-> FALSE, last |-> v.last, event |-> "stop"]
           ELSE [was |-> v.was, last |-> v.last, event |-> "none"]

\* A number stored into a Float32Array: rounded to Precision significant bits, to
\* the nearest, ties to the even significand. Precision stands for the 24 bits of
\* float32; the numbers of the callback itself (doubles) are exact.
froundAbs(n) ==
  LET e == CHOOSE i \in 0..n : n < 2 ^ (Precision + i) /\ (i = 0 \/ n >= 2 ^ (Precision + i - 1))
      unit == 2 ^ e
      q == n \div unit
      rest == n % unit
  IN IF 2 * rest > unit \/ (2 * rest = unit /\ q % 2 = 1)
       THEN (q + 1) * unit
       ELSE q * unit

fround(x) == IF x >= 0 THEN froundAbs(x) ELSE 0 - froundAbs(0 - x)

\* The loop of lines 299-303 scaling only the first sample of the block.
applyGainToFirst(inputData, currentGain) ==
  [i \in DOMAIN inputData |->
     IF i = 1 THEN fround(inputData[i] * currentGain) ELSE inputData[i]]

\* inputData[i] *= currentGain for every sample (line 301), stored as float32.
applyGain(inputData, currentGain) ==
  [i \in DOMAIN inputData |-> fround(inputData[i] * currentGain)]

\* sum += inputData[i] * inputData[i] (lines 299-303).
RECURSIVE SumSq(_)
SumSq(inputData) ==
  IF inputData = <<>> THEN 0 ELSE Head(inputData) * Head(inputData) + SumSq(Tail(inputData))

\* Math.sqrt; the samples of a block of the model have one magnitude, the root of
\* their mean square (to the integer below for any other block).
Sqrt(n) == CHOOSE r \in 0..n : r * r <= n /\ (r + 1) * (r + 1) > n

\* Math.sqrt(sum / inputData.length) (line 304).
Rms(inputData) == Sqrt(SumSq(inputData) \div Len(inputData))

\* createPcmBlob (services/audioUtils): the samples packed in their order, tagged
\* with the rate of the capture context.
createPcmBlob(inputData) == [pcm |-> inputData, sampleRate |-> InputSampleRate]

\* The send of lines 326-328 surfacing a failed send as an error of the session.
sendRealtimeInputThrows(w, k, torn) ==
  LET a == w.attempts[k]
  IN IF a.pc = "failed" THEN w
     ELSE IF a.pc # "done" THEN [w EXCEPT !.attempts[k].queued = @ + 1]
     ELSE IF a.sock = "open"
            THEN [w EXCEPT !.attempts[k].sent = @ + 1,
                           !.attempts[k].sentAfterTeardown = @ \/ torn]
            ELSE SetState(SetState(w, [error |-> Friendly]), [isActive |-> FALSE])

\* sessionPromise.then(session => session.sendRealtimeInput(...)).catch(() => {})
\* (lines 326-328) of attempt k: the callback runs at once when the promise is
\* resolved and after line 401 when it is pending; it never runs when the promise is
\* rejected; a send on a socket that is not open is dropped, and what it throws is
\* swallowed by the catch.
sendRealtimeInput(w, k, torn) ==
  LET a == w.attempts[k]
  IN IF a.pc = "failed" THEN w
     ELSE IF a.pc # "done" THEN [w EXCEPT !.attempts[k].queued = @ + 1]
     ELSE IF a.sock = "open"
            THEN [w EXCEPT !.attempts[k].sent = @ + 1,
                           !.attempts[k].sentAfterTeardown = @ \/ torn]
            ELSE w

\* scriptProcessor.onaudioprocess of attempt k (lines 294-329) past its guard, for a
\* block of samples inputData read at Date.now() = t. The processor runs while the
\* input AudioContext it was created on is open. playFeedbackSound changes no state
\* here.
onaudioprocess(k, inputData, t) ==
  /\ attempts[k].procCtx # 0 /\ attempts[k].procCtx \in inOpen
  /\ sessionRef # 0
  /\ frames' = frames + 1
  /\ now' = t
  /\ LET currentGain == inputGainRef
         scaled == applyGain(inputData, currentGain)
         rms == Rms(scaled)
         r == vadStep([was |-> wasUserTalkingRef, last |-> lastSilenceTimeRef,
                       threshold |-> vadThresholdRef, duration |-> vadDurationRef],
                      rms, t)
         w1 == IF r.event = "none" THEN World
               ELSE SetState(World, [isUserTalkingLocal |-> (r.event = "start")])
         pcmBlob == createPcmBlob(scaled)
     IN /\ wasUserTalkingRef' = r.was
        /\ lastSilenceTimeRef' = r.last
        /\ heard' = Append(heard, [t |-> t, loud |-> rms > vadThresholdRef,
                                    hangover |-> vadDurationRef, event |-> r.event,
                                    inputData |-> inputData, gain |-> currentGain,
                                    rms |-> rms, blob |-> pcmBlob])
        /\ Commit(sendRealtimeInput(w1, k, k \in tornDown))
  /\ op' = Op("onaudioprocess", k)
  /\ UNCHANGED <<mounted, effectRan, deps, entries, nextStartTimeRef, transcriptionRef,
                 vadThresholdRef, vadDurationRef, inputGainRef, currentTime, decoding,
                 messages, tornDown, log, stream, activeChallenge, calls, app, storage,
                 picked>>

\* The Mic gain slider (line 526) and the effect of line 78.
setInputGain(v) ==
  /\ mounted /\ v # inputGainRef
  /\ inputGainRef' = v
  /\ op' = Op("setInputGain", v)
  /\ UNCHANGED <<mounted, effectRan, state, deps, entries, sessionRef, audioContextInRef,
                 audioContextOutRef, outputGainNodeRef, nextStartTimeRef, sourcesRef,
                 transcriptionRef, wasUserTalkingRef, lastSilenceTimeRef, vadThresholdRef,
                 vadDurationRef, attempts, inOpen, outOpen, currentTime, now, decoding,
                 frames, messages, tornDown, heard, log, stream, activeChallenge, calls,
                 app, storage, picked>>

GainSettings == \E v \in Gains : setInputGain(v)

\* The VAD sliders (lines 599, 603) and the effects of lines 79-80.
setVadThreshold(v) ==
  /\ mounted /\ v # vadThresholdRef
  /\ vadThresholdRef' = v
  /\ op' = Op("setVadThreshold", v)
  /\ UNCHANGED <<mounted, effectRan, state, deps, entries, sessionRef, audioContextInRef,
                 audioContextOutRef, outputGainNodeRef, nextStartTimeRef, sourcesRef,
                 transcriptionRef, wasUserTalkingRef, lastSilenceTimeRef, vadDurationRef,
                 attempts, inOpen, outOpen, currentTime, now, decoding, frames, inputGainRef,
                 messages, tornDown, heard, log, stream, activeChallenge, calls, app,
                 storage, picked>>

setVadDuration(v) ==
  /\ mounted /\ v # vadDurationRef
  /\ vadDurationRef' = v
  /\ op' = Op("setVadDuration", v)
  /\ UNCHANGED <<mounted, effectRan, state, deps, entries, sessionRef, audioContextInRef,
                 audioContextOutRef, outputGainNodeRef, nextStartTimeRef, sourcesRef,
                 transcriptionRef, wasUserTalkingRef, lastSilenceTimeRef, vadThresholdRef,
                 attempts, inOpen, outOpen, currentTime, now, decoding, frames, inputGainRef,
                 messages, tornDown, heard, log, stream, activeChallenge, calls, app,
                 storage, picked>>

VadSettings ==
  \/ \E v \in Thresholds : setVadThreshold(v)
  \/ \E v \in Hangovers : setVadDuration(v)

\* ------------------------------------------------------------- inbound messages
\* The refs and state the message handler works on.
Inbound ==
  [mounted |-> mounted, state |-> state, sourcesRef |-> sourcesRef,
   nextStartTimeRef |-> nextStartTimeRef, transcriptionRef |-> transcriptionRef,
   entries |-> entries, now |-> now, activeChallenge |-> activeChallenge,
   calls |-> calls]

CommitInbound(b) ==
  /\ state' = b.state
  /\ sourcesRef' = b.sourcesRef
  /\ nextStartTimeRef' = b.nextStartTimeRef
  /\ transcriptionRef' = b.transcriptionRef
  /\ entries' = b.entries
  /\ storage' = setItem(storage, app, entries, b.entries)
  /\ now' = b.now
  /\ activeChallenge' = b.activeChallenge
  /\ calls' = b.calls

\* A TranscriptionEntry without a correction.
Entry(role, text, timestamp) ==
  [role |-> role, text |-> text, timestamp |-> timestamp, correction |-> <<>>]

\* A pending call of ai.models.generateContent made by fn.
Call(fn, text, timestamp) == [fn |-> fn, text |-> text, timestamp |-> timestamp]

\* text.split(' ').length
Pieces(text) == 1 + Cardinality({i \in DOMAIN text : text[i] = " "})

\* evaluateChallengeResponse up to its await (lines 134-141), in a closure whose
\* activeChallenge has the status challenge.
evaluateChallengeResponse(b, challenge, userInput) ==
  IF challenge # "active"
    THEN b
    ELSE [b EXCEPT !.activeChallenge = IF b.mounted /\ @ # "null" THEN "evaluating" ELSE @,
                   !.calls = @ \cup {Call("evaluateChallengeResponse", userInput, 0)}]

\* checkGrammar up to its await (lines 182-188).
checkGrammar(b, challenge, text, timestamp) ==
  IF text = <<>> \/ Pieces(text) < 2 \/ challenge = "active"
    THEN b
    ELSE [b EXCEPT !.calls = @ \cup {Call("checkGrammar", text, timestamp)}]

\* The turnComplete part of onmessage (lines 373-385) appending the entries of a turn
\* in front of the list.
turnCompletePrepends(b, challenge, t1, t2) ==
  LET input == b.transcriptionRef.input
      output == b.transcriptionRef.output
      e1 == IF trim(input) # <<>> THEN <<Entry("user", input, t1)>> \o b.entries
            ELSE b.entries
      e2 == IF trim(output) # <<>> THEN <<Entry("model", output, t2)>> \o e1 ELSE e1
  IN [b EXCEPT !.entries = IF b.mounted THEN e2 ELSE @,
               !.transcriptionRef = [input |-> <<>>, output |-> <<>>],
               !.now = t2]

\* The turnComplete part of onmessage clearing the buffer only when an entry is made.
turnCompleteKeepsBlank(b, challenge, t1, t2) ==
  LET input == b.transcriptionRef.input
      output == b.transcriptionRef.output
      e1 == IF trim(input) # <<>> THEN Append(b.entries, Entry("user", input, t1))
            ELSE b.entries
      e2 == IF trim(output) # <<>> THEN Append(e1, Entry("model", output, t2)) ELSE e1
  IN [b EXCEPT !.entries = IF b.mounted THEN e2 ELSE @,
               !.transcriptionRef = IF trim(input) # <<>> \/ trim(output) # <<>>
                                      THEN [input |-> <<>>, output |-> <<>>] ELSE @,
               !.now = t2]

\* The turnComplete part of onmessage taking the end of the turn for the end of speech.
turnCompleteEndsTalking(b, challenge, t1, t2) ==
  LET input == b.transcriptionRef.input
      output == b.transcriptionRef.output
      e1 == IF trim(input) # <<>> THEN Append(b.entries, Entry("user", input, t1))
            ELSE b.entries
      e2 == IF trim(output) # <<>> THEN Append(e1, Entry("model", output, t2)) ELSE e1
      b1 == [b EXCEPT !.entries = IF b.mounted THEN e2 ELSE @,
                      !.transcriptionRef = [input |-> <<>>, output |-> <<>>],
                      !.now = t2]
      b2 == SetState(b1, [isUserTalkingLocal |-> FALSE])
  IN IF trim(input) # <<>>
       THEN checkGrammar(evaluateChallengeResponse(b2, challenge, trim(input)),
                         challenge, trim(input), t1)
       ELSE b2

\* The turnComplete part of onmessage (lines 373-385); t1, t2 are the Date.now() reads.
turnComplete(b, challenge, t1, t2) ==
  LET input == b.transcriptionRef.input
      output == b.transcriptionRef.output
      e1 == IF trim(input) # <<>> THEN Append(b.entries, Entry("user", input, t1))
            ELSE b.entries
      e2 == IF trim(output) # <<>> THEN Append(e1, Entry("model", output, t2)) ELSE e1
      b1 == [b EXCEPT !.entries = IF b.mounted THEN e2 ELSE @,
                      !.transcriptionRef = [input |-> <<>>, output |-> <<>>],
                      !.now = t2]
  IN IF trim(input) # <<>>
       THEN checkGrammar(evaluateChallengeResponse(b1, challenge, trim(input)),
                         challenge, trim(input), t1)
       ELSE b1

\* onmessage after the audio part (lines 360-385), in a closure whose activeChallenge
\* has the status challenge.
afterAudio(b, challenge, msg, t1, t2) ==
  LET b1 == IF msg.interrupted
              THEN SetState([b EXCEPT !.sourcesRef = {}, !.nextStartTimeRef = 0],
                            [isSpeaking |-> FALSE])
              ELSE b
      b2 == [b1 EXCEPT !.transcriptionRef.input = @ \o msg.input,
                       !.transcriptionRef.output = @ \o msg.output]
  IN IF msg.turnComplete THEN turnComplete(b2, challenge, t1, t2) ELSE b2

\* An entry of log: a message arrived (time: the reading of ctx.currentTime, duration:
\* that of its audio chunk), its buffer was passed to source.start (time: the argument),
\* it flushed the playback queue, or its handler ended ("done") or threw ("abort").
Ev(kind, id, time, duration, rate) ==
  [kind |-> kind, id |-> id, time |-> time, duration |-> duration, rate |-> rate]

\* The entries of the part of onmessage after the audio part (lines 360-385).
afterAudioLog(id, msg) ==
  (IF msg.interrupted THEN <<Ev("interrupted", id, 0, 0, 0)>> ELSE <<>>)
    \o <<Ev("done", id, 0, 0, 0)>>

\* The audio part of onmessage before the await (lines 337-339) reading c from the
\* clock, with nextStartTimeRef set to the reading whatever it held.
beforeDecodeAtClock(b, c) ==
  [SetState(b, [isSpeaking |-> TRUE]) EXCEPT !.nextStartTimeRef = c]

\* The audio part of onmessage before the await (lines 337-339).
beforeDecode(b, c) ==
  [SetState(b, [isSpeaking |-> TRUE]) EXCEPT !.nextStartTimeRef = Max(@, c)]

\* The PlaybackSource of the decode d started at the time start (lines 341-355).
Source(d, start) ==
  [id |-> d.id, ctx |-> d.ctx, start |-> start, duration |-> d.msg.audio,
   rate |-> speechRateRef * outputPitchRef]

\* The audio part of onmessage after the await without the advance of line 356.
scheduleKeepsNextStart(b, d) ==
  [b EXCEPT !.sourcesRef = @ \cup {Source(d, b.nextStartTimeRef)}]

\* The audio part of onmessage after the await (lines 341-357).
schedule(b, d) ==
  LET source == Source(d, b.nextStartTimeRef)
  IN [b EXCEPT !.nextStartTimeRef = @ + (source.duration \div source.rate),
               !.sourcesRef = @ \cup {source}]

\* decodeAudioData (services/audioUtils): a pending decode of the chunk of message id
\* for the context ctx; it completes at any later time, in any order.
decodeAudioData(id, k, ctx, msg) == [id |-> id, k |-> k, ctx |-> ctx, msg |-> msg]

\* onmessage of attempt k (lines 334-386) up to await decodeAudioData, or to its end
\* when the message carries no audio that is played. c is the reading of ctx.currentTime.
onmessage(k, msg, c, t1, t2) ==
  /\ attempts[k].sock = "open"
  /\ messages' = messages + 1
  /\ stream' = Append(stream, msg)
  /\ IF msg.audio # 0 /\ audioContextOutRef # 0 /\ outputGainNodeRef # 0
       THEN /\ currentTime' = c
            /\ CommitInbound(beforeDecode(Inbound, c))
            /\ decoding' = decoding \cup
                 {decodeAudioData(messages + 1, k, audioContextOutRef, msg)}
            /\ log' = Append(log, Ev("arrive", messages + 1, c, msg.audio, 0))
       ELSE /\ CommitInbound(afterAudio(Inbound, attempts[k].cChallenge, msg, t1, t2))
            /\ log' = Append(log, Ev("arrive", messages + 1, currentTime, 0, 0))
                         \o afterAudioLog(messages + 1, msg)
            /\ UNCHANGED <<currentTime, decoding>>
  /\ op' = Op("onmessage", k)
  /\ UNCHANGED <<mounted, effectRan, deps, sessionRef, audioContextInRef,
                 audioContextOutRef, outputGainNodeRef, wasUserTalkingRef,
                 lastSilenceTimeRef, vadThresholdRef, vadDurationRef, attempts, inOpen,
                 outOpen, frames, inputGainRef, tornDown, heard, app, picked>>

\* onmessage resumed after await decodeAudioData (lines 341-385). source.connect
\* (line 349) throws when outputGainNodeRef.current is null or is a node of another
\* AudioContext than ctx, and the handler ends there.
decoded(d, t1, t2) ==
  /\ d \in decoding
  /\ decoding' = decoding \ {d}
  /\ IF outputGainNodeRef # d.ctx
       THEN /\ log' = Append(log, Ev("abort", d.id, 0, 0, 0))
            /\ UNCHANGED <<state, sourcesRef, nextStartTimeRef, transcriptionRef,
                           entries, storage, now, activeChallenge, calls>>
       ELSE LET source == Source(d, nextStartTimeRef)
            IN /\ CommitInbound(afterAudio(schedule(Inbound, d), attempts[d.k].cChallenge,
                                            d.msg, t1, t2))
               /\ log' = Append(log, Ev("start", d.id, source.start, source.duration,
                                         source.rate))
                            \o afterAudioLog(d.id, d.msg)
  /\ op' = Op("decoded", d.id)
  /\ UNCHANGED <<mounted, effectRan, deps, sessionRef, audioContextInRef,
                 audioContextOutRef, outputGainNodeRef, wasUserTalkingRef,
                 lastSilenceTimeRef, vadThresholdRef, vadDurationRef, attempts, inOpen,
                 outOpen, currentTime, frames, inputGainRef, messages, tornDown, heard,
                 stream, app, picked>>

\* source.onended clearing the indicator whatever is left in the set.
endedClearsIndicator(b, src) ==
  SetState([b EXCEPT !.sourcesRef = @ \ {src}], [isSpeaking |-> FALSE])

\* The body of source.onended (lines 351-354) on the refs and state b.
ended(b, src) ==
  LET b1 == [b EXCEPT !.sourcesRef = @ \ {src}]
  IN IF b1.sourcesRef = {} THEN SetState(b1, [isSpeaking |-> FALSE]) ELSE b1

\* The ended event of a source of the active set.
onended(src) ==
  /\ src \in sourcesRef
  /\ CommitInbound(ended(Inbound, src))
  /\ op' = Op("onended", src.id)
  /\ UNCHANGED <<mounted, effectRan, deps, sessionRef, audioContextInRef,
                 audioContextOutRef, outputGainNodeRef, wasUserTalkingRef,
                 lastSilenceTimeRef, vadThresholdRef, vadDurationRef, attempts, inOpen,
                 outOpen, currentTime, decoding, frames, inputGainRef, messages, tornDown,
                 heard, log, stream, app, picked>>

\* ------------------------------------------------------------- App
\* What the handlers of the setup screen leave alone: the conversation.
ConversationUnchanged ==
  UNCHANGED <<mounted, effectRan, state, deps, entries, sessionRef, audioContextInRef,
              audioContextOutRef, outputGainNodeRef, nextStartTimeRef, sourcesRef,
              transcriptionRef, wasUserTalkingRef, lastSilenceTimeRef, vadThresholdRef,
              vadDurationRef, inputGainRef, attempts, inOpen, outOpen, currentTime, now,
              decoding, frames, messages, tornDown, heard, log, stream, activeChallenge,
              calls, storage>>

\* handleLanguageSelect (App.tsx lines 45-52).
handleLanguageSelect(a, lang) ==
  [a EXCEPT !.language = lang, !.selectedVoice = VoiceOf(lang)]

\* A language button of the setup screen (line 103).
selectLanguage(lang) ==
  /\ app.status = "idle"
  /\ app' = handleLanguageSelect(app, lang)
  /\ picked' = IF app'.selectedVoice = picked THEN picked ELSE "null"
  /\ op' = Op("handleLanguageSelect", lang)
  /\ ConversationUnchanged

\* A voice button of the setup screen (lines 138-141).
selectVoice(voice) ==
  /\ app.status = "idle" /\ voice # app.selectedVoice
  /\ app' = [app EXCEPT !.selectedVoice = voice]
  /\ picked' = voice
  /\ op' = Op("selectVoice", voice)
  /\ ConversationUnchanged

\* A scenario button of the setup screen (line 198).
selectScenario(sc) ==
  /\ app.status = "idle" /\ sc # app.scenario
  /\ app' = [app EXCEPT !.scenario = sc]
  /\ op' = Op("selectScenario", sc)
  /\ UNCHANGED picked
  /\ ConversationUnchanged

\* Every callback of the conversations so far has run: no attempt in flight, no
\* socket or capture context open, no decode, source or collaborator call pending.
Quiet ==
  /\ \A k \in DOMAIN attempts :
        /\ attempts[k].pc \in {"done", "failed"}
        /\ attempts[k].sock \in {"none", "closed"}
        /\ attempts[k].procCtx \notin inOpen
  /\ decoding = {} /\ sourcesRef = {} /\ calls = {}

\* handleStart (App.tsx lines 54-58): the ConversationView is mounted anew, with the
\* initial values of its state and refs (lines 34-75) and the entries saved under its
\* storageKey. Modelled once the earlier conversation is Quiet: the model keeps one
\* set of refs, those of the mounted component.
handleStart ==
  /\ app.status = "idle" /\ app.language # "null" /\ app.scenario # "null"
  /\ app.selectedVoice # "null"
  /\ ~mounted /\ Quiet
  /\ app' = [app EXCEPT !.status = "active"]
  /\ mounted' = TRUE
  /\ effectRan' = FALSE
  /\ state' = [isActive |-> FALSE, isConnecting |-> FALSE, error |-> NoError,
               isSpeaking |-> FALSE, isUserTalkingLocal |-> FALSE]
  /\ deps' = DepsOf(state')
  /\ entries' = parse(storage[storageKey(app.language, app.scenario)])
  /\ sessionRef' = 0
  /\ audioContextInRef' = 0
  /\ audioContextOutRef' = 0
  /\ outputGainNodeRef' = 0
  /\ nextStartTimeRef' = 0
  /\ sourcesRef' = {}
  /\ transcriptionRef' = [input |-> <<>>, output |-> <<>>]
  /\ wasUserTalkingRef' = FALSE
  /\ lastSilenceTimeRef' = 0
  /\ vadThresholdRef' = 2
  /\ vadDurationRef' = 2
  /\ inputGainRef' = 1
  /\ activeChallenge' = "null"
  /\ op' = Op("handleStart", 0)
  /\ UNCHANGED <<attempts, inOpen, outOpen, currentTime, now, decoding, frames, messages,
                 tornDown, heard, log, stream, calls, storage, picked>>

Setup ==
  \/ \E lang \in Languages : selectLanguage(lang)
  \/ \E voice \in Voices : selectVoice(voice)
  \/ \E sc \in Scenarios : selectScenario(sc)
  \/ handleStart

\* The setup screen without the voice buttons.
Reopen ==
  \/ \E lang \in Languages : selectLanguage(lang)
  \/ \E sc \in Scenarios : selectScenario(sc)
  \/ handleStart

\* ------------------------------------------------------------- collaborators
\* What the collaborator handlers leave alone: the session, capture and playback.
SessionUnchanged ==
  UNCHANGED <<mounted, effectRan, state, deps, sessionRef, audioContextInRef,
              audioContextOutRef, outputGainNodeRef, nextStartTimeRef, sourcesRef,
              transcriptionRef, wasUserTalkingRef, lastSilenceTimeRef, vadThresholdRef,
              vadDurationRef, attempts, inOpen, outOpen, currentTime, now, decoding,
              frames, inputGainRef, messages, tornDown, heard, log, stream, app, picked>>

\* A correctedText of the Grammar Checker.
Corrected == <<"b">>

\* The updater of setEntries in checkGrammar replacing the text of the entry.
attachCorrectionAsText(list, timestamp, correctedText) ==
  [i \in DOMAIN list |->
     IF list[i].timestamp = timestamp THEN [list[i] EXCEPT !.text = correctedText]
     ELSE list[i]]

\* The updater of setEntries in checkGrammar (lines 210-212).
attachCorrection(list, timestamp, correctedText) ==
  [i \in DOMAIN list |->
     IF list[i].timestamp = timestamp THEN [list[i] EXCEPT !.correction = correctedText]
     ELSE list[i]]

\* The catch block of checkGrammar with the error surfaced to the session.
grammarCheckFailedLoudly(s) == [s EXCEPT !.error = Friendly, !.isActive = FALSE]

\* The catch block of checkGrammar (lines 214-216) on the useState values: a warning
\* on the console.
grammarCheckFailed(s) == s

\* checkGrammar resumed after its await (lines 208-213) with the status of the result.
checkGrammarResolved(call, status) ==
  /\ call \in calls /\ call.fn = "checkGrammar"
  /\ calls' = calls \ {call}
  /\ entries' = IF status = "CORRECTION" /\ mounted
                  THEN attachCorrection(entries, call.timestamp, Corrected)
                  ELSE entries
  /\ storage' = setItem(storage, app, entries, entries')
  /\ op' = Op("checkGrammar", call.timestamp)
  /\ UNCHANGED activeChallenge
  /\ SessionUnchanged

\* generateContent of checkGrammar throws, or its result is not JSON (lines 214-216).
checkGrammarRejected(call) ==
  /\ call \in calls /\ call.fn = "checkGrammar"
  /\ calls' = calls \ {call}
  /\ state' = IF mounted THEN grammarCheckFailed(state) ELSE state
  /\ op' = Op("checkGrammarFailed", call.timestamp)
  /\ UNCHANGED <<entries, storage, activeChallenge>>
  /\ UNCHANGED <<mounted, effectRan, deps, sessionRef, audioContextInRef,
                 audioContextOutRef, outputGainNodeRef, nextStartTimeRef, sourcesRef,
                 transcriptionRef, wasUserTalkingRef, lastSilenceTimeRef, vadThresholdRef,
                 vadDurationRef, attempts, inOpen, outOpen, currentTime, now, decoding,
                 frames, inputGainRef, messages, tornDown, heard, log, stream, app, picked>>

\* evaluateChallengeResponse resumed after its await: the result (lines 174-175) or
\* the catch block (lines 176-179).
evaluateResolved(call, ok) ==
  /\ call \in calls /\ call.fn = "evaluateChallengeResponse"
  /\ calls' = calls \ {call}
  /\ activeChallenge' = IF ~mounted THEN activeChallenge
                        ELSE IF ~ok \/ activeChallenge = "null" THEN "null"
                        ELSE "completed"
  /\ op' = Op(IF ok THEN "evaluated" ELSE "evaluateFailed", 0)
  /\ UNCHANGED <<entries, storage>>
  /\ SessionUnchanged

\* The challenge button (line 534): generateChallenge up to its await (lines 93-100).
generateChallenge ==
  /\ mounted /\ activeChallenge \notin {"active", "evaluating"}
  /\ Call("generateChallenge", <<>>, 0) \notin calls
  /\ activeChallenge' = "active"
  /\ calls' = calls \cup {Call("generateChallenge", <<>>, 0)}
  /\ op' = Op("generateChallenge", 0)
  /\ UNCHANGED <<entries, storage>>
  /\ SessionUnchanged

\* generateChallenge resumed after its await (lines 122-131).
generateResolved(call, ok) ==
  /\ call \in calls /\ call.fn = "generateChallenge"
  /\ calls' = calls \ {call}
  /\ activeChallenge' = IF ~mounted THEN activeChallenge
                        ELSE IF ok THEN "active" ELSE "null"
  /\ op' = Op(IF ok THEN "generated" ELSE "generateFailed", 0)
  /\ UNCHANGED <<entries, storage>>
  /\ SessionUnchanged

\* The Continue Practice button (line 575).
continuePractice ==
  /\ mounted /\ activeChallenge # "null"
  /\ activeChallenge' = "null"
  /\ op' = Op("continuePractice", 0)
  /\ UNCHANGED <<entries, storage, calls>>
  /\ SessionUnchanged

GrammarChecker ==
  \E call \in calls :
     \/ \E status \in {"CORRECTION", "OK"} : checkGrammarResolved(call, status)
     \/ checkGrammarRejected(call)

ChallengeService ==
  \/ \E call \in calls :
        \/ \E ok \in BOOLEAN : evaluateResolved(call, ok)
        \/ \E ok \in BOOLEAN : generateResolved(call, ok)
  \/ generateChallenge
  \/ continuePractice

Collaborators == GrammarChecker \/ ChallengeService

\* Readings of the clocks: Date.now() and ctx.currentTime never go back.
NowReads == {t \in now..MaxNow : t <= now + 1}
ClockReads == {c \in currentTime..MaxTime : c <= currentTime + 1}

Lifecycle ==
  \/ Mount
  \/ Rerender
  \/ Unmount
  \/ \E k \in DOMAIN attempts :
        \/ GetUserMediaResolved(k)
        \/ GetUserMediaRejected(k)
        \/ ConnectRejected(k)
        \/ ConnectResolved(k)
        \/ onopen(k)
        \/ onerror(k)
        \/ onclose(k)

\* The capture callbacks handling at most n blocks in all.
CaptureUpTo(blocks, n) ==
  \E k \in DOMAIN attempts, inputData \in blocks, t \in now..MaxNow :
     frames < n /\ onaudioprocess(k, inputData, t)

Capture == CaptureUpTo(Blocks, MaxFrames)

\* The clock readings a message's handler makes: ctx.currentTime when it carries
\* audio, Date.now() twice when it completes a turn.
ClockReadsOf(msg) == IF msg.audio # 0 THEN ClockReads ELSE {currentTime}
NowReadsOf(msg) == IF msg.turnComplete THEN NowReads ELSE {now}
NowRereadsOf(msg, t1) ==
  IF msg.turnComplete THEN {t \in t1..MaxNow : t <= t1 + 1} ELSE {t1}

\* The sessions delivering at most n messages in all, drawn from msgs.
Arrivals(msgs, n) ==
  \E k \in DOMAIN attempts, msg \in msgs :
     \E c \in ClockReadsOf(msg), t1 \in NowReadsOf(msg) :
        \E t2 \in NowRereadsOf(msg, t1) :
           messages < n /\ onmessage(k, msg, c, t1, t2)

\* The inbound stream delivering at most n messages in all, drawn from msgs.
PlaybackUpTo(msgs, n) ==
  \/ Arrivals(msgs, n)
  \/ \E d \in decoding :
        \E t1 \in NowReadsOf(d.msg) :
           \E t2 \in NowRereadsOf(d.msg, t1) : decoded(d, t1, t2)
  \/ \E src \in sourcesRef : onended(src)

Playback(msgs) == PlaybackUpTo(msgs, MaxMessages)

Next ==
  \/ Lifecycle \/ Capture \/ VadSettings \/ GainSettings
  \/ Playback(InboundMessages) \/ Collaborators \/ Setup

Spec == Init /\ [][Next]_vars

\* The session lifecycle with the capture callback.
SpecSession == Init /\ [][Lifecycle \/ Capture]_vars

\* The session lifecycle with the inbound stream.
SpecStream == Init /\ [][Lifecycle \/ Playback(InboundMessages)]_vars

\* Teardown of playback: at most MaxSessions attempts, audio chunks only.
AudioChunks == {m \in InboundMessages : m = Msg(m.audio, FALSE, <<>>, <<>>, FALSE)}

SpecTeardown ==
  Init /\ [][(Lifecycle /\ Len(attempts') <= MaxSessions) \/ Playback(AudioChunks)]_vars

\* The playback scheduler over at most MaxSessions attempts and MaxChunks messages:
\* audio chunks and Interrupted signals.
ScheduleMessages == {m \in InboundMessages : m.input = <<>> /\ m.output = <<>>
                                              /\ ~m.turnComplete}

SpecPlayback ==
  Init /\ [][(Lifecycle /\ Len(attempts') <= MaxSessions)
             \/ PlaybackUpTo(ScheduleMessages, MaxChunks)]_vars

\* The transcript of at most MaxSessions attempts and MaxTurnMessages messages, with
\* the collaborators.
TranscriptMessages ==
  {Msg(0, FALSE, <<"a", " ", "a">>, <<>>, FALSE), Msg(0, FALSE, <<" ">>, <<>>, FALSE),
   Msg(1, FALSE, <<>>, <<"a">>, FALSE), Msg(0, FALSE, <<>>, <<>>, TRUE),
   Msg(0, FALSE, <<>>, <<"a">>, TRUE)}

\* The transcript of one session with the Grammar Checker: the session is set up
\* before its first message, and the component may be unmounted at any time.
SpecTranscript ==
  Init /\ [][(Lifecycle /\ Len(attempts') <= MaxSessions /\ (messages = 0 \/ ~mounted'))
             \/ PlaybackUpTo(TranscriptMessages, MaxTurnMessages)
             \/ GrammarChecker]_vars

\* The Challenge Service and the Grammar Checker over sessions without failure: a
\* user turn of two words and its completion.
ChallengeMessages ==
  {Msg(0, FALSE, <<"a", " ", "a">>, <<>>, FALSE), Msg(0, FALSE, <<>>, <<>>, TRUE)}

SpecChallenge ==
  Init /\ [][(Lifecycle /\ state'.error = NoError /\ messages = 0)
             \/ Arrivals(ChallengeMessages, MaxChallengeMessages)
             \/ Collaborators]_vars

\* The gain stage: one attempt, the Mic gain slider and the capture callback.
SpecGain ==
  Init /\ [][(Lifecycle /\ Len(attempts') <= MaxSessions /\ frames = 0)
             \/ CaptureUpTo(GainBlocks, MaxGainFrames) \/ GainSettings]_vars

\* The history store over MaxConversations conversations of one session each, with
\* the setup screen between them: attempts are started by Mount only and end without
\* an error.
HistoryMessages ==
  {Msg(0, FALSE, <<"a", " ", "a">>, <<>>, TRUE), Msg(0, FALSE, <<>>, <<"a">>, TRUE)}

SpecHistory ==
  Init /\ [][(Lifecycle /\ state'.error = NoError /\ Len(attempts') <= MaxConversations
                /\ (Len(attempts') > Len(attempts) => op'.name = "mount"))
             \/ Arrivals(HistoryMessages, MaxHistoryMessages)
             \/ GrammarChecker \/ (Reopen /\ Quiet)]_vars

\* The setup screen, with one session that ends without an error.
SpecSetup ==
  Init /\ [][(Lifecycle /\ state'.error = NoError /\ Len(attempts') <= MaxSessions)
             \/ Setup]_vars

\* Capture and the inbound stream together in one session, set up before its first
\* block and message: a user turn and its completion while blocks are classified.
DuplexMessages == {Msg(0, FALSE, <<"a">>, <<>>, FALSE), Msg(0, FALSE, <<>>, <<>>, TRUE)}

SpecDuplex ==
  Init /\ [][(Lifecycle /\ Len(attempts') <= MaxSessions /\ frames = 0 /\ messages = 0)
             \/ CaptureUpTo(Blocks, MaxDuplexFrames)
             \/ Arrivals(DuplexMessages, MaxDuplexMessages)]_vars

\* The capture callbacks with the VAD sliders, over at most MaxSessions attempts.
SpecVad ==
  Init /\ [][(Lifecycle /\ Len(attempts') <= MaxSessions)
             \/ CaptureUpTo(Blocks, MaxHeard) \/ VadSettings]_vars

\* ------------------------------------------------------------- claims
Open == {k \in DOMAIN attempts : attempts[k].sock = "open"}
Empty == [input |-> <<>>, output |-> <<>>]
Teardowns == {"rerender", "restart", "unmount"}
ErrorPaths == {"catch", "onerror"}

\* C1: once an error is surfaced, the error stays and no new connection attempt is
\* made by the component itself (the model has no explicit restart request).
C1_NoAutomaticRetry ==
  [][(mounted /\ state.error # NoError)
       => (Len(attempts') = Len(attempts) /\ state'.error # NoError)]_vars

\* C2: onclose of a session that had opened and was closed by close() leaves the
\* error value as it was.
C2_GracefulCloseSurfacesNoError ==
  [][\A k \in DOMAIN attempts :
       (attempts[k].opened /\ attempts[k].sock = "closing"
          /\ attempts'[k].sock = "closed")
       => state'.error = state.error]_vars

\* C3: at most one duplex session is open at a time.
C3_AtMostOneOpenSession == Cardinality(Open) <= 1

\* C4: a session that was in progress or live when cleanup ran is not open
\* afterwards and no audio packet is sent on it.
C4_TornDownSessionIsClosed ==
  \A k \in tornDown : attempts[k].sock # "open" /\ ~attempts[k].sentAfterTeardown

\* C5: after teardown nextStartTime is back at 0 and both accumulators are empty.
C5_TeardownResetsScheduling ==
  op.name \in Teardowns => (nextStartTimeRef = 0 /\ transcriptionRef = Empty)

\* C6: cleanup is idempotent: in every state a second cleanup changes nothing the
\* first one left, and the active PlaybackSource set is empty after each.
C6_TeardownIdempotent ==
  LET once == cleanup(World)
      twice == cleanup(once)
  IN twice = once /\ once.sourcesRef = {} /\ twice.sourcesRef = {}

\* C6 witness: a teardown has run and stopped an active PlaybackSource.
C6_Witness ==
  op.name \in Teardowns /\ op.k > 0 /\ sourcesRef = {} /\ sessionRef = 0

\* C7: an open session stops being open only by a transport failure, a close of the
\* transport or the unmount of the component, and no new attempt starts meanwhile.
C7_ActiveLeftOnlyOnFailureOrClose ==
  [][\A k \in DOMAIN attempts :
       attempts[k].sock = "open"
       => /\ attempts'[k].sock = "open" \/ op'.name \in {"onerror", "onclose", "unmount"}
          /\ Len(attempts') = Len(attempts)]_vars

\* C8: the active indicator turns true only on the open acknowledgment and only
\* while the connecting indicator is true, and the two are never both true.
C8_ActiveOnlyFromConnecting ==
  [][/\ ~(state'.isActive /\ state'.isConnecting)
     /\ (~state.isActive /\ state'.isActive)
          => (op'.name = "onopen" /\ state.isConnecting)]_vars

\* C9: when an attempt that never opened ends while the component is mounted, an
\* error is surfaced and the connecting indicator is false.
Ended(a) == a.pc = "failed" \/ a.sock = "closed"

C9_FailedAttemptSurfacesError ==
  [][\A k \in DOMAIN attempts :
       (mounted /\ ~Ended(attempts[k]) /\ Ended(attempts'[k]) /\ ~attempts'[k].opened)
       => (state'.error # NoError /\ ~state'.isConnecting)]_vars

\* C10: after an error handler (the catch block, onerror) the audio handles are
\* released, no PlaybackSource is active and no capture callback is running.
Released ==
  /\ audioContextInRef = 0 /\ audioContextOutRef = 0
  /\ sourcesRef = {}
  /\ \A k \in DOMAIN attempts : attempts[k].procCtx \notin inOpen

C10_ErrorPathsReleaseResources == op.name \in ErrorPaths => Released

\* The speech-start and speech-stop events emitted so far, in order.
VadEvents == SelectSeq(heard, LAMBDA h : h.event # "none")

\* C11: the emitted speech events alternate, beginning with a speech-start, whatever
\* the blocks and the slider changes.
C11_VadEventsAlternate ==
  \A i \in DOMAIN VadEvents :
     VadEvents[i].event = IF i % 2 = 1 THEN "start" ELSE "stop"

\* C11 witness: a start, a stop and a second start were emitted.
C11_Witness == Len(VadEvents) = 3 /\ VadEvents[3].event = "start"

\* C12: a speech-stop is emitted at a block at or below the threshold, and every
\* earlier block above the threshold is older than the hangover duration in force.
C12_StopOnlyAfterHangover ==
  \A j \in DOMAIN heard :
     heard[j].event = "stop"
     => /\ ~heard[j].loud
        /\ \A i \in 1..(j - 1) :
              heard[i].loud => heard[j].t - heard[i].t > heard[j].hangover

\* C12 witness: a stop was emitted after two blocks above the threshold.
C12_Witness ==
  /\ Len(heard) = 3 /\ heard[3].event = "stop"
  /\ heard[1].loud /\ heard[2].loud /\ heard[2].t > heard[1].t

\* C13: when a new session starts, the VAD is in the Silent state.
C13_VadResetAtSessionStart ==
  op.name \in {"mount", "restart"} => ~wasUserTalkingRef

\* The positions of log where a buffer was passed to source.start, the messages they
\* belong to, and the entry of a message's arrival and of its buffer's start.
Starts == {i \in DOMAIN log : log[i].kind = "start"}
Started == {log[i].id : i \in Starts}
ArrivalOf(id) == CHOOSE i \in DOMAIN log : log[i].kind = "arrive" /\ log[i].id = id
StartOf(id) == CHOOSE i \in Starts : log[i].id = id
InterruptedBetween(i, j) == \E f \in i..j : log[f].kind = "interrupted"
Length(id) == log[StartOf(id)].duration \div log[StartOf(id)].rate

RECURSIVE TotalLength(_)
TotalLength(ids) ==
  IF ids = {} THEN 0
  ELSE LET id == CHOOSE x \in ids : TRUE IN Length(id) + TotalLength(ids \ {id})

\* C14: with no interruption and each chunk arriving before the chunk that arrived
\* before it has finished playing, the i-th chunk (in arrival order) starts at the
\* start of the first plus the lengths of the chunks that arrived before it.
C14_GapFreeScheduling ==
  LET first == CHOOSE id \in Started : \A x \in Started : id <= x
      Before(id) == {x \in Started : x < id}
      Previous(id) == CHOOSE p \in Before(id) : \A x \in Before(id) : x <= p
      BackToBack == \A id \in Started \ {first} :
                       log[ArrivalOf(id)].time
                         < log[StartOf(Previous(id))].time + Length(Previous(id))
  IN (Started # {} /\ ~InterruptedBetween(1, Len(log)) /\ BackToBack)
     => \A id \in Started :
           log[StartOf(id)].time = log[StartOf(first)].time + TotalLength(Before(id))

C16_NextStartTimeMonotone ==
  [][nextStartTimeRef' >= nextStartTimeRef
       \/ \E f \in (Len(log) + 1)..Len(log') : log'[f].kind = "interrupted"]_vars

\* C16 witness: nextStartTime was raised by the clock and then by a buffer, after an
\* Interrupted signal had reset it.
C16_Witness ==
  /\ nextStartTimeRef > currentTime /\ currentTime > 0
  /\ \E i \in Starts : InterruptedBetween(1, i) /\ log[i].time = currentTime

\* C17: the first buffer started after an Interrupted signal was handled starts at the
\* current time of the output clock.
C17_StartsAtClockAfterInterrupted ==
  [][\A j \in (Len(log) + 1)..Len(log') :
       (/\ log'[j].kind = "start"
        /\ \E f \in 1..(j - 1) :
              /\ log'[f].kind = "interrupted"
              /\ \A i \in (f + 1)..(j - 1) : log'[i].kind # "start")
       => log'[j].time = currentTime]_vars

\* C18: right after an Interrupted signal is handled no PlaybackSource is active and
\* isSpeaking is false, and no chunk that arrived before the signal is started after it.
C18_InterruptedFlushes ==
  /\ (/\ op.name \in {"onmessage", "decoded"} /\ Len(log) >= 2
      /\ log[Len(log) - 1].kind = "interrupted")
     => (sourcesRef = {} /\ ~state.isSpeaking)
  /\ \A f \in DOMAIN log, j \in Starts :
        (log[f].kind = "interrupted" /\ f < j) => ArrivalOf(log[j].id) > f

\* C19: once a message has arrived, no effect of a message that arrived before it is
\* applied.
C19_MessagesInArrivalOrder ==
  \A i \in DOMAIN log, j \in DOMAIN log :
     (i < j /\ log[i].kind = "arrive") => log[j].id >= log[i].id

\* C20: of two chunks both started, with no Interrupted signal handled since the
\* first arrived, the one that arrived first does not start later than the other.
C20_StartsInArrivalOrder ==
  \A a \in Started, b \in Started :
     (a < b /\ ~InterruptedBetween(ArrivalOf(a), Len(log)))
     => log[StartOf(a)].time <= log[StartOf(b)].time

\* The message whose handler ended in the last step, or 0.
Handled ==
  IF op.name \in {"onmessage", "decoded"} /\ log # <<>> /\ log[Len(log)].kind = "done"
    THEN log[Len(log)].id ELSE 0

\* The TurnComplete messages of a stream, and the deltas of a role that arrived in the
\* turn that message tc completes.
TurnCompletes(str) == {i \in DOMAIN str : str[i].turnComplete}

RECURSIVE Deltas(_, _, _, _)
Deltas(str, role, from, to) ==
  IF from > to THEN <<>>
  ELSE (IF role = "user" THEN str[from].input ELSE str[from].output)
         \o Deltas(str, role, from + 1, to)

TurnDeltas(str, role, tc) ==
  LET earlier == {i \in TurnCompletes(str) : i < tc}
      previous == IF earlier = {} THEN 0
                  ELSE CHOOSE p \in earlier : \A x \in earlier : x <= p
  IN Deltas(str, role, previous + 1, tc)

Roles(list) == [i \in DOMAIN list |-> list[i].role]
Finalized(list) == [i \in DOMAIN list |-> <<list[i].role, list[i].text, list[i].timestamp>>]
IsPrefix(p, q) == Len(p) <= Len(q) /\ SubSeq(q, 1, Len(p)) = p

\* C21: when a TurnComplete arrives (the component being mounted), one entry is
\* appended for each role whose deltas of that turn are not blank, in the order user,
\* model, and none for a role whose deltas are empty or blank.
C21_OneEntryPerNonBlankRole ==
  [][(mounted /\ Len(stream') > Len(stream) /\ stream'[Len(stream')].turnComplete)
     => LET tc == Len(stream')
            expected ==
              (IF trim(TurnDeltas(stream', "user", tc)) # <<>> THEN <<"user">> ELSE <<>>)
              \o (IF trim(TurnDeltas(stream', "model", tc)) # <<>> THEN <<"model">>
                  ELSE <<>>)
        IN Roles(entries') = Roles(entries) \o expected]_vars

\* C22: when the handler of a TurnComplete ends, both accumulators are empty whether
\* or not an entry was made, and the entries it made hold the text accumulated since
\* the accumulators were last emptied.
C22_TurnBufferCleared ==
  [][(Handled' # 0 /\ Handled' # Handled /\ stream'[Handled'].turnComplete)
     => /\ transcriptionRef' = Empty
        /\ \A i \in (Len(entries) + 1)..Len(entries') :
              entries'[i].text \in
                {transcriptionRef.input \o stream'[Handled'].input,
                 transcriptionRef.output \o stream'[Handled'].output}]_vars

\* C22 witness: a turn of blank input was completed: no entry, empty accumulators.
C22_Witness ==
  /\ Handled = 2 /\ stream[2].turnComplete /\ stream[1].input = <<" ">>
  /\ entries = <<>> /\ transcriptionRef = Empty

\* C23: every step keeps the entries there are, in their order, and adds entries only
\* at the end; their timestamps follow the order of finalization.
C23_TranscriptAppendOnly ==
  [][/\ IsPrefix(Finalized(entries), Finalized(entries'))
     /\ \A i \in DOMAIN entries', j \in DOMAIN entries' :
           i < j => entries'[i].timestamp <= entries'[j].timestamp]_vars

\* C23 witness: entries of two TurnCompletes, the first corrected meanwhile.
C23_Witness ==
  /\ Cardinality(TurnCompletes(stream)) = 2 /\ Len(entries) = 2
  /\ entries[1].correction # <<>> /\ entries[2].role = "model"
  /\ entries[1].timestamp < entries[2].timestamp

\* C24: role, text and timestamp of an entry never change; an entry changes only by
\* the Grammar Checker setting its correction.
C24_EntriesImmutable ==
  [][\A i \in DOMAIN entries :
       /\ i \in DOMAIN entries'
       /\ entries'[i].role = entries[i].role
       /\ entries'[i].text = entries[i].text
       /\ entries'[i].timestamp = entries[i].timestamp
       /\ entries'[i] # entries[i] => op'.name = "checkGrammar"]_vars

\* C24 witness: the Grammar Checker has just set the correction of an entry.
C24_Witness ==
  op.name = "checkGrammar" /\ \E i \in DOMAIN entries : entries[i].correction = Corrected

\* C25: a correction is attached to the user entry whose text was checked, and to no
\* other entry.
C25_CorrectionOnItsEntryOnly ==
  [][op'.name = "checkGrammar"
     => \A call \in calls \ calls' : \A i \in DOMAIN entries :
          entries'[i] # entries[i]
          => (/\ entries[i].role = "user"
              /\ trim(entries[i].text) = call.text
              /\ entries[i].timestamp = call.timestamp)]_vars

\* C26: a failure of the Grammar Checker or of the Challenge Service changes nothing
\* of the session, the playback, the TurnBuffer or the entries.
C26_CollaboratorFailureIsSilent ==
  [][op'.name \in {"checkGrammarFailed", "evaluateFailed", "generateFailed"}
     => UNCHANGED <<state, sessionRef, audioContextInRef, audioContextOutRef,
                    outputGainNodeRef, attempts, inOpen, outOpen, nextStartTimeRef,
                    sourcesRef, decoding, transcriptionRef, entries>>]_vars

\* C26 witness: a call of a collaborator has failed and another never returned, with
\* a session open and the entry of the turn finalized.
C26_Witness ==
  /\ op.name \in {"checkGrammarFailed", "evaluateFailed"}
  /\ calls # {} /\ entries # <<>> /\ Open # {} /\ state.isActive

\* C27: a capture callback whose send meets a socket that is not open (the session
\* was torn down, or its connection failed) completes like any other and the send
\* changes nothing: no attempt, no session state, no handle.
C27_SendNeverFails ==
  [][(op'.name = "onaudioprocess" /\ frames' = frames + 1
      /\ attempts[op'.k].pc = "done" /\ attempts[op'.k].sock # "open")
     => /\ attempts' = attempts
        /\ sessionRef' = sessionRef
        /\ state'.error = state.error
        /\ state'.isActive = state.isActive
        /\ state'.isConnecting = state.isConnecting
        /\ Len(heard') = Len(heard) + 1]_vars

\* C27 witness: a capture callback has just run on a session whose socket failed.
C27_Witness ==
  /\ op.name = "onaudioprocess" /\ heard # <<>>
  /\ attempts[op.k].pc = "done" /\ attempts[op.k].sock = "failed"
  /\ attempts[op.k].sent = 0

\* The component shows no session: not active, not connecting, no error.
Idle == ~state.isActive /\ ~state.isConnecting /\ state.error = NoError

\* C28: the capture callback is attached only to a session that acknowledged its
\* open; no packet leaves while the component is idle or connecting; and a frame the
\* callback handles while the component is active is sent, at once or when the
\* session promise resolves.
C28_CaptureFollowsOpen ==
  [][/\ \A k \in DOMAIN attempts' : attempts'[k].procCtx # 0 => attempts'[k].opened
     /\ \A k \in DOMAIN attempts :
          attempts'[k].sent > attempts[k].sent => ~(state.isConnecting \/ Idle)
     /\ (op'.name = "onaudioprocess" /\ frames' = frames + 1 /\ state.isActive)
        => \E k \in DOMAIN attempts :
              \/ attempts'[k].sent > attempts[k].sent
              \/ attempts'[k].queued > attempts[k].queued]_vars

\* C29: the callback reads the gain once, and both the rms the VAD uses and the
\* packet handed to the send are computed from every sample of the block multiplied
\* by that gain.
C29_GainBeforeVadAndEncoding ==
  [][Len(heard') > Len(heard)
     => LET h == heard'[Len(heard')]
            scaled == [j \in DOMAIN h.inputData |-> fround(h.inputData[j] * inputGainRef)]
        IN /\ h.gain = inputGainRef
           /\ h.blob.pcm = scaled
           /\ h.rms * h.rms * Len(scaled) = SumSq(scaled)
           /\ h.loud = (h.rms > vadThresholdRef)]_vars

\* C29 witness: a block of speech was handled at gain 2 and its packet was sent.
C29_Witness ==
  /\ op.name = "onaudioprocess" /\ heard # <<>>
  /\ LET h == heard[Len(heard)]
     IN h.inputData = <<3, -3>> /\ h.gain = 2 /\ h.rms = 6 /\ h.blob.pcm = <<6, -6>>
  /\ attempts[op.k].sent > 0

\* C30: the rms measured on a block handled at gain g > 0 is g times the rms of the
\* block as captured.
C30_GainLinearity ==
  \A i \in DOMAIN heard :
     heard[i].gain > 0 => heard[i].rms = heard[i].gain * Rms(heard[i].inputData)

\* C31: while a conversation is mounted, the value stored under the key of its
\* language and scenario, parsed, is its entry list (so a conversation that opens
\* starts from the list of its own key), and a step changes the stored value of no
\* other language and scenario.
C31_HistoryPerKey ==
  [][/\ mounted' => parse(storage'[storageKey(app'.language, app'.scenario)]) = entries'
     /\ \A l \in Languages, s \in Scenarios :
          storage'[storageKey(l, s)] # storage[storageKey(l, s)]
          => (mounted /\ l = app.language /\ s = app.scenario)]_vars

\* C31 witness: a conversation has just been opened again and starts from its saved
\* list, a corrected user entry, while another key holds another list.
C31_Witness ==
  /\ op.name = "handleStart" /\ entries # <<>>
  /\ entries[1].role = "user" /\ entries[1].correction = Corrected
  /\ \E k \in StorageKeys : storage[k].saved /\ parse(storage[k]) # entries

\* C38: selecting a language sets the voice to the default voice of that language
\* when the user picked no voice by hand, and keeps a voice the user picked by hand.
C38_PickedVoiceSurvives ==
  [][op'.name = "handleLanguageSelect"
     => app'.selectedVoice = IF picked # "null" THEN app.selectedVoice
                             ELSE VoiceOf(app'.language)]_vars

\* C35: when a source completes it leaves the active set, and isSpeaking is set to
\* false by that step exactly when the set is empty afterwards; with sources left,
\* isSpeaking is as it was.
C35_FinishedWhenSetEmpties ==
  [][op'.name = "onended"
     => /\ \E src \in sourcesRef : src.id = op'.k /\ sourcesRef' = sourcesRef \ {src}
        /\ state'.isSpeaking = IF sourcesRef' = {} /\ mounted THEN FALSE
                               ELSE state.isSpeaking]_vars

\* C35 witness: a source has just completed while another is pending, and the
\* indicator is still on.
C35_Witness == op.name = "onended" /\ sourcesRef # {} /\ state.isSpeaking

\* C36: while the component is mounted and the active set is not empty, isSpeaking is
\* true.
C36_SpeakingWhileSourcesActive == (mounted /\ sourcesRef # {}) => state.isSpeaking

\* C34: the user-is-talking indicator equals the VAD's talking state after any sequence
\* of frames, teardowns and session starts.
C34_IndicatorIsVadState == mounted => state.isUserTalkingLocal = wasUserTalkingRef

\* C39: the connecting indicator is true exactly while an attempt begun by
\* startSession has neither opened, failed nor closed, and a callback of an earlier,
\* superseded attempt never clears the indicator of the current attempt.
InFlight(a) == ~a.opened /\ a.pc # "failed" /\ a.sock \notin {"failed", "closed"}

C39_ConnectingWhileInFlight ==
  [][/\ mounted' => (state'.isConnecting <=> \E k \in DOMAIN attempts' : InFlight(attempts'[k]))
     /\ (/\ mounted /\ state.isConnecting /\ attempts # <<>>
         /\ InFlight(attempts'[Len(attempts)])
         /\ op'.name \in {"onopen", "onerror", "onclose", "catch"}
         /\ op'.k < Len(attempts))
        => state'.isConnecting]_vars

\* C33: every frame captured after capture has started is classified by the VAD,
\* whatever the state of the session handle: whenever a processor is running (a block
\* can be delivered to it), the guard of onaudioprocess lets the block through.
Capturing == {k \in DOMAIN attempts : attempts[k].procCtx # 0 /\ attempts[k].procCtx \in inOpen}

C33_CapturedFramesClassified ==
  \A k \in Capturing : \A b \in Blocks : ENABLED onaudioprocess(k, b, now)

\* C37: after a block above the threshold, among the blocks at or below it, a
\* speech-stop is emitted at the first one stamped more than the hangover duration
\* after that block, and at no other: not at one stamped exactly the hangover
\* duration after it, and not at the quiet blocks that follow the stop.
LastLoud(j) == CHOOSE i \in 1..(j - 1) :
                 heard[i].loud /\ \A k \in (i + 1)..(j - 1) : ~heard[k].loud

C37_OneStopPastHangover ==
  \A j \in DOMAIN heard :
     (~heard[j].loud /\ \E i \in 1..(j - 1) : heard[i].loud)
     => LET i == LastLoud(j)
        IN heard[j].event = "stop"
           <=> /\ heard[j].t - heard[i].t > heard[j].hangover
               /\ \A k \in (i + 1)..(j - 1) : heard[k].event # "stop"

\* C37 witness: a quiet block stamped exactly the hangover duration after the last
\* loud one emitted nothing, and the next quiet block emitted the stop.
C37_Witness ==
  /\ Len(heard) = 3 /\ heard[1].loud /\ ~heard[2].loud /\ ~heard[3].loud
  /\ heard[2].hangover > 0 /\ heard[2].t - heard[1].t = heard[2].hangover
  /\ heard[2].event = "none" /\ heard[3].event = "stop"

\* C32: the handler of a TurnComplete leaves the VAD state and the talking indicator
\* as they are and appends exactly one user entry holding the accumulated input (when
\* it is not blank); the capture callback leaves the accumulators and the entries as
\* they are, and still emits its one speech-stop past the hangover duration.
C32_VadAndTranscriptIndependent ==
  [][/\ (op'.name = "onmessage" /\ stream'[Len(stream')].turnComplete)
        => /\ UNCHANGED <<wasUserTalkingRef, lastSilenceTimeRef, heard>>
           /\ state'.isUserTalkingLocal = state.isUserTalkingLocal
           /\ LET text == transcriptionRef.input \o stream'[Len(stream')].input
                  new == SubSeq(entries', Len(entries) + 1, Len(entries'))
                  users == SelectSeq(new, LAMBDA e : e.role = "user")
              IN (mounted /\ trim(text) # <<>>)
                 => /\ IsPrefix(entries, entries')
                    /\ Len(users) = 1 /\ users[1].text = text
     /\ op'.name = "onaudioprocess"
        => /\ UNCHANGED <<transcriptionRef, entries>>
           /\ C37_OneStopPastHangover']_vars

\* C32 witness: a turn was completed between a loud block and the speech-stop of the
\* silence that followed it, and made its entry.
C32_Witness ==
  /\ Len(heard) = 3 /\ heard[1].loud /\ heard[2].event = "none"
  /\ heard[3].event = "stop"
  /\ Len(entries) = 1 /\ entries[1].role = "user"
  /\ heard[1].t < entries[1].timestamp /\ entries[1].timestamp < heard[3].t

====
